---- MODULE Spec2Model ----
(***************************************************************************)
(* Model of the bulk order editor route (app/routes/app._index.tsx):       *)
(* the BulkOrderEditor component (form state, one fetcher, two buttons),   *)
(* the fetcher that carries its submissions, and the route's server        *)
(* `action`, which answers a submission from the remote order API.         *)
(***************************************************************************)
EXTENDS Integers, Sequences, FiniteSets, TLC

VARIABLES
  fromStatus,  \* useState("") of the "From Status" select
  toStatus,    \* useState("") of the "To Status" select
  fstate,      \* fetcher.state: "idle", "submitting" or "loading"
  formData,    \* fetcher.formData: the submission in flight, or undefined
  data,        \* fetcher.data: the last action response, or undefined
  exchange,    \* what the last run of `action` exchanged with the remote API
  fault,       \* how the remote API would answer a mutation of the first order
  boundary     \* the action threw: the route's error boundary replaced the page

vars == <<fromStatus, toStatus, fstate, formData, data, exchange, fault, boundary>>

-----------------------------------------------------------------------------
(* Bounds of the model *)

\* The user picks among the first MaxOption entries of the status options.
MaxOption == 3

\* Shops with 0..MaxSmall matching orders, next to those around the page size.
MaxSmall == 2

-----------------------------------------------------------------------------
(* Constants of the program *)

\* variables: { first: 250, ... }
PageCap == 250

FINANCIAL_STATUS_OPTIONS ==
  << "", "authorized", "paid", "pending", "partially_paid",
     "partially_refunded", "refunded", "voided" >>

\* The values the two selects offer within the bound.
Selectable == { FINANCIAL_STATUS_OPTIONS[i] : i \in 1..MaxOption }

\* undefined (fetcher.formData, fetcher.data before any submission)
undefined == << >>

\* What FormData.get answers for a field that was never appended.
null == "null"

Min(a, b) == IF a < b THEN a ELSE b

-----------------------------------------------------------------------------
(* Number <-> string, as the order count travels in the form *)

DigitChars == << "0", "1", "2", "3", "4", "5", "6", "7", "8", "9" >>

IsDigit(c) == \E d \in 1..10 : DigitChars[d] = c

DigitValue(c) == (CHOOSE d \in 1..10 : DigitChars[d] = c) - 1

\* Number.prototype.toString() of a non-negative integer: its decimal digits.
RECURSIVE toString(_)
toString(n) ==
  IF n < 10 THEN << DigitChars[n + 1] >>
  ELSE toString(n \div 10) \o << DigitChars[(n % 10) + 1] >>

\* The value of the longest prefix of digits; << >> stands for NaN.
RECURSIVE ParseDigits(_, _, _)
ParseDigits(s, i, acc) ==
  IF i > Len(s) \/ ~IsDigit(s[i]) THEN acc
  ELSE ParseDigits(s, i + 1,
                   << (IF acc = << >> THEN 0 ELSE acc[1]) * 10 + DigitValue(s[i]) >>)

\* parseInt reading one digit only.
parseIntFirstDigit(s) == ParseDigits(SubSeq(s, 1, 1), 1, << >>)

parseInt(s) == ParseDigits(s, 1, << >>)

\* parseInt(...) || 0 : NaN and 0 are falsy.
OrZero(p) == IF p = << >> \/ p[1] = 0 THEN 0 ELSE p[1]

-----------------------------------------------------------------------------
(* The remote order API, as the action sees it *)

\* How many orders of the shop match the query.
ShopSizes == (0..MaxSmall) \cup { PageCap, PageCap + 1 }

\* "ok": a page of distinct orders; "duplicate": a page that repeats an
\* identifier; "errors": a body with errors and no data.
Outcomes == { "ok", "duplicate", "errors" }

\* How the remote would answer a mutation of the first matched order.
MutationAnswers == { "success", "RateLimited", "ValidationFailed" }

\* The edges of orders(first: PageCap, query): at most `first` of the
\* `total` matching orders, each named by its identifier.
Edges(total, outcome) ==
  [ i \in 1..Min(total, PageCap) |->
      IF outcome = "duplicate" /\ i = 2 THEN 1 ELSE i ]

\* await response.json()
ResponseJson(total, outcome) ==
  IF outcome = "errors"
  THEN [ errors |-> "errors" ]
  ELSE [ data |-> [ orders |->
           [ edges    |-> Edges(total, outcome),
             pageInfo |-> [ hasNextPage |-> total > PageCap ] ] ] ]

-----------------------------------------------------------------------------
(* The server action *)

\* formData.get(key)
Get(fd, key) ==
  IF fd = undefined THEN null
  ELSE IF key \in DOMAIN fd THEN fd[key] ELSE null

\* formData.get("orderCount") as string
GetOrderCount(fd) ==
  IF fd # undefined /\ "orderCount" \in DOMAIN fd
  THEN fd.orderCount
  ELSE << "n", "u", "l", "l" >>

\* The admin.graphql calls a run of the action makes: one orders query for
\* a search, none for an update (the update branch is a placeholder) and
\* none for any other action type.
RemoteCalls(fd) ==
  IF Get(fd, "actionType") = "search"
  THEN << [ op    |-> "orders",
            first |-> PageCap,
            query |-> [ field |-> "financial_status",
                        value |-> Get(fd, "fromStatus") ] ] >>
  ELSE << >>

\* What the action returns for the form `fd`, `rj` being the body of the
\* remote's response to its query.
action(fd, rj) ==
  IF Get(fd, "actionType") = "search"
  THEN [ action      |-> "search",
         orders      |-> IF "data" \in DOMAIN rj THEN rj.data.orders.edges
                         ELSE << >>,
         hasNextPage |-> IF "data" \in DOMAIN rj
                         THEN rj.data.orders.pageInfo.hasNextPage
                         ELSE FALSE,
         fromStatus  |-> Get(fd, "fromStatus"),
         toStatus    |-> Get(fd, "toStatus") ]
  ELSE IF Get(fd, "actionType") = "update"
  THEN [ action       |-> "update",
         success      |-> TRUE,
         updatedCount |-> OrZero(parseInt(GetOrderCount(fd))),
         fromStatus   |-> Get(fd, "fromStatus"),
         toStatus     |-> Get(fd, "toStatus") ]
  ELSE [ error |-> "Invalid action" ]

NoExchange == [ calls |-> << >>, total |-> 0, outcome |-> "none" ]

-----------------------------------------------------------------------------
(* The component's derived values *)

isLoading == fstate \in { "loading", "submitting" }

\* The searching flag without the test of the submitted action type.
isSearchingAnySubmission == isLoading

isSearching == isLoading /\ Get(formData, "actionType") = "search"

isUpdating == isLoading /\ Get(formData, "actionType") = "update"

OrdersOf(d) == IF d # undefined /\ "orders" \in DOMAIN d THEN d.orders ELSE << >>

orders == OrdersOf(data)

hasSearched ==
  data # undefined /\ "action" \in DOMAIN data /\ data.action = "search"

hasUpdated ==
  /\ data # undefined
  /\ "action" \in DOMAIN data
  /\ data.action = "update"
  /\ "success" \in DOMAIN data
  /\ data.success

\* A Button whose loading flag is not passed to it.
ButtonClickableWhileLoading(disabled, loading) == ~disabled

\* A Button fires onClick unless it is disabled or loading.
ButtonClickable(disabled, loading) == ~(disabled \/ loading)

\* <Button onClick={handleSearch} loading={isSearching} disabled={!fromStatus}>
FindOrdersClickable == ButtonClickable(fromStatus = "", isSearching)

\* {hasSearched && orders.length > 0 && (<Button onClick={handleBulkUpdate}
\*    loading={isUpdating} disabled={!toStatus}>)}
UpdateClickable ==
  /\ hasSearched
  /\ Len(orders) > 0
  /\ ButtonClickable(toStatus = "", isUpdating)

\* The Job phase the component's state stands for: a request whose answer
\* is outstanding is `searching` or `updating`; otherwise the phase is the
\* one of the response held.
Phase ==
  IF fstate = "submitting" /\ Get(formData, "actionType") = "search"
    THEN "searching"
  ELSE IF fstate = "submitting" /\ Get(formData, "actionType") = "update"
    THEN "updating"
  ELSE IF data = undefined THEN "idle"
  ELSE IF hasSearched THEN "searched"
  ELSE IF hasUpdated THEN "updated"
  ELSE "failed"

-----------------------------------------------------------------------------
(* Operations *)

\* fetcher.submit(formData, { method: "POST" }): the submission replaces
\* whatever the fetcher had in flight; fetcher.data stays until the answer.
submit(fd) ==
  /\ formData' = fd
  /\ fstate' = "submitting"
  /\ UNCHANGED << fromStatus, toStatus, data, exchange, fault, boundary >>

handleSearch ==
  /\ fromStatus # ""
  /\ submit([ actionType |-> "search",
              fromStatus |-> fromStatus,
              toStatus   |-> toStatus ])

handleBulkUpdate ==
  /\ toStatus # ""
  /\ Len(orders) # 0
  /\ submit([ actionType |-> "update",
              fromStatus |-> fromStatus,
              toStatus   |-> toStatus,
              orderCount |-> toString(Len(orders)) ])

SelectFrom ==
  /\ ~boundary
  /\ \E v \in Selectable : fromStatus' = v
  /\ UNCHANGED << toStatus, fstate, formData, data, exchange, fault, boundary >>

SelectTo ==
  /\ ~boundary
  /\ \E v \in Selectable : toStatus' = v
  /\ UNCHANGED << fromStatus, fstate, formData, data, exchange, fault, boundary >>

ClickFindOrders ==
  /\ ~boundary
  /\ FindOrdersClickable
  /\ handleSearch

ClickUpdate ==
  /\ ~boundary
  /\ UpdateClickable
  /\ handleBulkUpdate

\* The action answers a search: the response becomes fetcher.data and the
\* fetcher goes on to revalidate.
SearchResponds ==
  /\ ~boundary
  /\ fstate = "submitting"
  /\ Get(formData, "actionType") = "search"
  /\ \E total \in ShopSizes, outcome \in Outcomes :
       /\ outcome = "duplicate" => total >= 2
       /\ data' = action(formData, ResponseJson(total, outcome))
       /\ exchange' = [ calls   |-> RemoteCalls(formData),
                        total   |-> total,
                        outcome |-> outcome ]
  /\ fstate' = "loading"
  /\ UNCHANGED << fromStatus, toStatus, formData, fault, boundary >>

\* The action answers any other submission: it asks the remote nothing.
OtherResponds ==
  /\ ~boundary
  /\ fstate = "submitting"
  /\ Get(formData, "actionType") # "search"
  /\ data' = action(formData, [ errors |-> "unused" ])
  /\ exchange' = [ NoExchange EXCEPT !.calls = RemoteCalls(formData) ]
  /\ fstate' = "loading"
  /\ UNCHANGED << fromStatus, toStatus, formData, fault, boundary >>

\* authenticate.admin or admin.graphql throws: the fetcher's error goes to
\* the route's error boundary, which replaces the component.
ActionThrows ==
  /\ ~boundary
  /\ fstate = "submitting"
  /\ boundary' = TRUE
  /\ fstate' = "idle"
  /\ formData' = undefined
  /\ UNCHANGED << fromStatus, toStatus, data, exchange, fault >>

\* The revalidation that follows an action's answer ends.
Revalidated ==
  /\ ~boundary
  /\ fstate = "loading"
  /\ fstate' = "idle"
  /\ formData' = undefined
  /\ UNCHANGED << fromStatus, toStatus, data, exchange, fault, boundary >>

\* The page is loaded again: the component is constructed anew.
Reload ==
  /\ boundary
  /\ fromStatus' = ""
  /\ toStatus' = ""
  /\ fstate' = "idle"
  /\ formData' = undefined
  /\ data' = undefined
  /\ exchange' = NoExchange
  /\ boundary' = FALSE
  /\ UNCHANGED fault

Init ==
  /\ fromStatus = ""
  /\ toStatus = ""
  /\ fstate = "idle"
  /\ formData = undefined
  /\ data = undefined
  /\ exchange = NoExchange
  /\ fault \in MutationAnswers
  /\ boundary = FALSE

Next ==
  \/ SelectFrom
  \/ SelectTo
  \/ ClickFindOrders
  \/ ClickUpdate
  \/ SearchResponds
  \/ OtherResponds
  \/ ActionThrows
  \/ Revalidated
  \/ Reload

Spec == Init /\ [][Next]_vars

-----------------------------------------------------------------------------
(* The action on its own: any form a request can carry *)

\* The allowed financial statuses: the options but the placeholder.
StatusValue ==
  { FINANCIAL_STATUS_OPTIONS[i] : i \in 2..Len(FINANCIAL_STATUS_OPTIONS) }

RawStatuses == Selectable \cup { "bogus" }

RawActionTypes == { "search", "update", "delete" }

RawOrderCounts == { toString(n) : n \in 0..MaxSmall } \cup { << "a", "b" >> }

RawForms ==
  [ actionType : RawActionTypes, fromStatus : RawStatuses,
    toStatus : RawStatuses ]
  \cup
  [ actionType : RawActionTypes, fromStatus : RawStatuses,
    toStatus : RawStatuses, orderCount : RawOrderCounts ]

ActionInit ==
  /\ fromStatus = ""
  /\ toStatus = ""
  /\ fstate = "submitting"
  /\ formData \in RawForms
  /\ data = undefined
  /\ exchange = NoExchange
  /\ fault \in MutationAnswers
  /\ boundary = FALSE

ActionNext ==
  \/ SearchResponds
  \/ OtherResponds
  \/ ActionThrows
  \/ Revalidated

ActionSpec == ActionInit /\ [][ActionNext]_vars

-----------------------------------------------------------------------------
(* Properties *)

\* A step in which the action's answer to an update arrives.
UpdateAnswered == hasUpdated' /\ data' # data

\* The retry bound of the specification's Batch Mutator (section 4.2).
MaxAttempts == 3

\* The mutation calls of an exchange.
MutationCalls(ex) ==
  { i \in DOMAIN ex.calls : ex.calls[i].op = "setFinancialStatus" }

\* C1: an update request made in any phase other than `searched` is
\* rejected: no step takes the Job into `updating` except from `searched`
\* (or keeps it there).
C1_UpdateOnlyFromSearched ==
  [][ Phase' = "updating" => Phase \in { "searched", "updating" } ]_vars

\* C2: a completed search holds at most PageCap items, and its hasNextPage
\* flag is true exactly when the remote has more than PageCap matching orders.
C2_CapAndHasMore ==
  hasSearched =>
    /\ Len(data.orders) <= PageCap
    /\ data.hasNextPage <=> (exchange.total > PageCap)

\* C3: no two items of a search result share an order identifier.
C3_NoDuplicateIds ==
  hasSearched =>
    \A i, j \in DOMAIN data.orders :
      i # j => data.orders[i] # data.orders[j]

C5_FailedSearchIsFailed ==
  exchange.outcome = "errors" => (~hasSearched /\ Phase = "failed")

\* C6: when the mutation of a target fails, the update still ends in
\* `updated`, with the failure recorded and the target not counted as
\* succeeded.
C6_FailuresRecorded ==
  [][ (UpdateAnswered /\ fault # "success") =>
        /\ Phase' # "failed"
        /\ "failed" \in DOMAIN data'
        /\ data'.updatedCount < Len(orders) ]_vars

\* C7: while an update is in flight no second update request is taken: the
\* submission in flight is not replaced by another update.
C7_NoSecondUpdate ==
  [][ Phase = "updating" =>
        (formData' = formData \/ Get(formData', "actionType") # "update") ]_vars

\* C7 witness: an update is in flight, the searched orders are still shown
\* and the user has chosen another target status since.
C7_Witness ==
  /\ Phase = "updating"
  /\ hasSearched
  /\ Len(orders) > 0
  /\ toStatus # ""
  /\ toStatus # formData.toStatus

\* C8: a search whose filter, or an update whose target status, is not an
\* allowed status value is answered with an error and no remote call.
C8_InvalidStatusRejected ==
  ( /\ fstate = "loading"
    /\ \/ /\ Get(formData, "actionType") = "search"
          /\ Get(formData, "fromStatus") \notin StatusValue
       \/ /\ Get(formData, "actionType") = "update"
          /\ Get(formData, "toStatus") \notin StatusValue )
  => ("error" \in DOMAIN data /\ exchange.calls = << >>)

\* C9: a target whose every mutation attempt is rate limited is attempted
\* exactly MaxAttempts times and is then not counted as succeeded.
C9_RetryBound ==
  [][ (UpdateAnswered /\ fault = "RateLimited") =>
        /\ Cardinality(MutationCalls(exchange')) = MaxAttempts
        /\ data'.updatedCount < Len(orders) ]_vars

\* C10: the searching and updating indications are never both true.
C10_OnePhase == ~(isSearching /\ isUpdating)

\* C10 witness: an update is in flight while a search result is held.
C10_Witness == isUpdating /\ hasSearched /\ ~isSearching

====
